---- MODULE Spec2Model ----
(***************************************************************************)
(* Model of the cpu_frequencies kernel module (cpu-freqency.c).            *)
(*                                                                         *)
(* Four flows of control touch the module's state:                         *)
(*   "init"   my_module_init, including its synchronous refresh            *)
(*   "timer"  my_timer_callback, run by the kernel when my_timer expires   *)
(*   exit     my_module_exit                                               *)
(*   reader   a process calling read() on /proc/cpu_frequencies            *)
(* plus CPU hotplug, which changes cpu_online_mask under the module.       *)
(* The module takes no lock, so every access to shared memory is a step    *)
(* of its own, except sprintf, which is taken as one step per line.        *)
(*                                                                         *)
(* Spec is the module with its loader and unloader; SpecReader adds a      *)
(* process reading the proc file and SpecHotplug adds CPU hotplug, all on  *)
(* one small machine. SpecMachine is my_module_init on a range of          *)
(* machines; SpecLive is the module with the progress its threads make.    *)
(***************************************************************************)
EXTENDS Integers, Sequences, FiniteSets, TLC

\* ---------------------------------------------------------------- bounds
MaxTicks == 1        \* expirations of my_timer that are explored
MaxHotplug == 1      \* CPU online/offline events that are explored
BigCpus == 80        \* CPUs of the largest machine that is explored

\* ------------------------------------------------------- the environment
\* A uint64_t is written as its four 16-bit words, most significant first:
\* <<w3, w2, w1, w0>> is w3 * 2^48 + w2 * 2^32 + w1 * 2^16 + w0.
\* topology_core_id(cpu) for cpu = 0 .. NR_CPUS-1 on the machine Spec runs
\* on (the table is 1-based).
CoreIdTable == <<0, 0, 1, 1>>
\* Raw values rdmsrl_on_cpu may deliver for MSR_IA32_PERF_STATUS there.
MsrValues == {<<0, 0, 3, 0 * 256 + 7>>, <<0, 0, 0, 12 * 256 + 255>>}
\* What a word of memory returned by kmalloc_array may hold: the allocator
\* does not clear it.
KmallocFill == {0, 9000}
\* cpu_online_mask when the module is loaded: the machine was started with
\* one CPU; the others come online by hotplug.
InitialOnline == {0}
\* Byte counts a reader may pass to read().
ReadCounts == {40, 4096}

BufSize == 4096
ENOMEM == 12
EINVAL == 22
EFAULT == 14

Threads == {"init", "timer"}

VARIABLES
    machine,                \* the machine and kernel build the module is loaded on
    pc,                     \* position of "init" and "timer"
    epc,                    \* position of my_module_exit
    cpu_freqs,              \* the array behind the pointer cpu_freqs
    store,                  \* "null", "live" or "freed": state of that pointer
    cpu_freq_data,          \* bytes written so far; every later byte is 0
    proc_file,              \* "null", "registered" or "removed"
    timer_pending,          \* my_timer is armed
    cpu_online_mask,
    cpu,                    \* per thread: loop variable cpu
    first_thread_per_core,  \* per thread: the scratch array
    msr_value,              \* per thread: local msr_value of read_cpu_frequencies
    freq,                   \* per thread: local freq of read_cpu_frequencies
    ptr,                    \* per thread: local ptr, as an offset into the buffer
    init_ret,               \* return value of my_module_init once it returned
    rpc, ppos, count, available, rret, rdata,   \* the reader and its file
    sampled, hi, lo,        \* history of the samples taken for each slot
    smp, prt,               \* per thread: CPUs sampled / printed in its current cycle
    failed, prev_report,    \* per thread: an allocation of its current cycle
                            \* failed / the report published at that moment
    uaf,                    \* the array was accessed after kfree(cpu_freqs)
    overlapped,             \* the callback has run while init was still refreshing
    overflow,               \* sprintf wrote past cpu_freq_data[BufSize-1]
    rfresh, rinit,          \* at strlen: buffer untouched / init had returned 0
    nticks, nhotplug

vars == <<machine, pc, epc, cpu_freqs, store, cpu_freq_data, proc_file,
          timer_pending, cpu_online_mask, cpu, first_thread_per_core, msr_value,
          freq, ptr, init_ret, rpc, ppos, count, available, rret, rdata,
          sampled, hi, lo, smp, prt, failed, prev_report,
          uaf, overlapped, overflow, rfresh, rinit, nticks, nhotplug>>

locals == <<cpu, first_thread_per_core, msr_value, freq, ptr>>
reader == <<rpc, ppos, count, available, rret, rdata, rfresh, rinit>>
history == <<sampled, hi, lo>>
cycle == <<smp, prt, failed, prev_report>>
shared == <<cpu_freqs, store, cpu_freq_data, proc_file, timer_pending, init_ret,
            uaf, overlapped, overflow>>
env == <<machine, cpu_online_mask, nhotplug>>

\* ------------------------------------------------------------ the machine
\* What the module takes from the kernel it is built for and the machine it
\* runs on: NR_CPUS and topology_core_id (core_id, 1-based),
\* cpu_possible_mask (possible) and the values MSR_IA32_PERF_STATUS can be
\* read as (perf_status). Core ids index the scratch array of NR_CPUS entries
\* (lines 51-52), so every machine here has its core ids below NR_CPUS.
\* The machine of Spec: the last slot of the array belongs to no possible CPU.
DefaultMachine ==
    [core_id |-> CoreIdTable,
     possible |-> (0 .. (Len(CoreIdTable) - 1)) \ {Len(CoreIdTable) - 1},
     perf_status |-> MsrValues]

NR_CPUS == Len(machine.core_id)
Slots == 0 .. (NR_CPUS - 1)
cpu_possible_mask == machine.possible

\* ------------------------------------------------------------ helpers
Min2(a, b) == IF a < b THEN a ELSE b
Max2(a, b) == IF a > b THEN a ELSE b

topology_core_id(c) == machine.core_id[c + 1]

\* first_thread_per_core after the loop of lines 41-43 / 99-101.
ScratchInit == [k \in Slots |-> NR_CPUS]

\* x >> 8 on a uint64_t: every word gives its high byte to its low byte and
\* takes the low byte of the word above it.
Shr8(x) ==
    [i \in 1 .. 4 |->
        (x[i] \div 256) + (IF i > 1 THEN (x[i - 1] % 256) * 256 ELSE 0)]

\* x & 0xff on a uint64_t.
And255(x) == <<0, 0, 0, x[4] % 256>>

\* The conversion of a uint64_t to unsigned int keeps the low 32 bits.
ToUint(x) == x[3] * 65536 + x[4]

\* A variant of FreqOf that masks the register without shifting it.
FreqOfNoShift(msr) == ToUint(And255(msr)) * 100

\* Lines 64-67: freq = (msr_value >> 8) & 0xff; freq *= 100, in unsigned int.
FreqOf(msr) == ToUint(And255(Shr8(msr))) * 100

\* The bytes of a string are its ASCII codes; NUL is 0.
RECURSIVE Dec(_)
Dec(n) == IF n < 10 THEN <<48 + n>> ELSE Dec(n \div 10) \o <<48 + (n % 10)>>

\* sprintf's output for "CPU %u Frequency: %u MHz, Max: %u MHz, Min: %u MHz\n".
FormatLine(c, cur, mx, mn) ==
    <<67, 80, 85, 32>> \o Dec(c)
    \o <<32, 70, 114, 101, 113, 117, 101, 110, 99, 121, 58, 32>> \o Dec(cur)
    \o <<32, 77, 72, 122, 44, 32, 77, 97, 120, 58, 32>> \o Dec(mx)
    \o <<32, 77, 72, 122, 44, 32, 77, 105, 110, 58, 32>> \o Dec(mn)
    \o <<32, 77, 72, 122, 10>>

\* The byte at offset off of the static array cpu_freq_data.
ByteAt(buf, off) == IF off < Len(buf) THEN buf[off + 1] ELSE 0

\* A variant of Strlen that takes the size of the array for the length of
\* the string in it.
StrlenAsSizeof(buf) == BufSize

RECURSIVE StrlenFrom(_, _)
StrlenFrom(buf, off) ==
    IF ByteAt(buf, off) = 0 THEN off ELSE StrlenFrom(buf, off + 1)
Strlen(buf) == StrlenFrom(buf, 0)

\* The buffer after bytes were stored at offset off .. off+Len(bytes)-1.
WriteAt(buf, off, bytes) ==
    [i \in 1 .. Max2(Len(buf), off + Len(bytes)) |->
        IF i > off /\ i <= off + Len(bytes) THEN bytes[i - off]
        ELSE ByteAt(buf, i - 1)]

\* Bytes off .. off+n-1 of the buffer.
Bytes(buf, off, n) == [i \in 1 .. n |-> ByteAt(buf, off + i - 1)]

\* The report a reader is served: the bytes before the first NUL.
Published == Bytes(cpu_freq_data, 0, Strlen(cpu_freq_data))

\* for_each_online_cpu: the next set bit of cpu_online_mask after prev
\* (prev = -1 at the start); NR_CPUS when there is none.
NextOnline(prev) ==
    IF \E c \in cpu_online_mask : c > prev
    THEN CHOOSE c \in cpu_online_mask :
            c > prev /\ \A d \in cpu_online_mask : d > prev => c <= d
    ELSE NR_CPUS

\* Values a load of field f of slot c may yield: the stored one, or, once
\* the array has been freed, whatever the allocator put there since.
LoadSet(c, f) ==
    IF store = "freed" THEN {cpu_freqs[c][f]} \cup KmallocFill
    ELSE {cpu_freqs[c][f]}


\* A variant of simple_read_from_buffer that leaves *ppos where it was.
simple_read_keeps_pos(cnt, pos, from, avail, uncopied) ==
    IF pos < 0 THEN [ret |-> -EINVAL, pos |-> pos, data |-> <<>>]
    ELSE IF pos >= avail \/ cnt = 0 THEN [ret |-> 0, pos |-> pos, data |-> <<>>]
    ELSE LET n == IF cnt > avail - pos THEN avail - pos ELSE cnt
             left == Min2(uncopied, n)
         IN  IF left = n THEN [ret |-> -EFAULT, pos |-> pos, data |-> <<>>]
             ELSE [ret |-> n - left, pos |-> pos,
                   data |-> Bytes(from, pos, n - left)]

\* simple_read_from_buffer(to, count, ppos, from, available), with uncopied
\* the number of bytes copy_to_user could not store (0 for a valid buffer).
\* Returns the value returned, the new *ppos and the bytes delivered.
simple_read_from_buffer(cnt, pos, from, avail, uncopied) ==
    IF pos < 0 THEN [ret |-> -EINVAL, pos |-> pos, data |-> <<>>]
    ELSE IF pos >= avail \/ cnt = 0 THEN [ret |-> 0, pos |-> pos, data |-> <<>>]
    ELSE LET n == IF cnt > avail - pos THEN avail - pos ELSE cnt
             left == Min2(uncopied, n)
         IN  IF left = n THEN [ret |-> -EFAULT, pos |-> pos, data |-> <<>>]
             ELSE [ret |-> n - left, pos |-> pos + (n - left),
                   data |-> Bytes(from, pos, n - left)]

\* ------------------------------------------------------------ initial state
\* The state in which the module is loaded on machine m with the CPUs of
\* online running: nothing allocated, the static buffer all zero.
Boot(m, online) ==
    /\ machine = m
    /\ pc = [t \in Threads |-> IF t = "init" THEN "i_alloc" ELSE "idle"]
    /\ epc = "e_idle"
    /\ cpu_freqs = [c \in Slots |-> [cur_freq |-> 0, max |-> 0, min |-> 0]]
    /\ store = "null"
    /\ cpu_freq_data = <<>>
    /\ proc_file = "null"
    /\ timer_pending = FALSE
    /\ cpu_online_mask = online
    /\ cpu = [t \in Threads |-> -1]
    /\ first_thread_per_core = [t \in Threads |-> ScratchInit]
    /\ msr_value = [t \in Threads |-> <<0, 0, 0, 0>>]
    /\ freq = [t \in Threads |-> 0]
    /\ ptr = [t \in Threads |-> 0]
    /\ init_ret = 0
    /\ rpc = "idle" /\ ppos = 0 /\ count = 0 /\ available = 0
    /\ rret = 0 /\ rdata = <<>>
    /\ sampled = [c \in Slots |-> FALSE]
    /\ hi = [c \in Slots |-> 0]
    /\ lo = [c \in Slots |-> 0]
    /\ smp = [t \in Threads |-> {}]
    /\ prt = [t \in Threads |-> {}]
    /\ failed = [t \in Threads |-> FALSE]
    /\ prev_report = [t \in Threads |-> <<>>]
    /\ uaf = FALSE /\ overlapped = FALSE /\ overflow = FALSE
    /\ rfresh = FALSE /\ rinit = FALSE
    /\ nticks = 0 /\ nhotplug = 0

Init == Boot(DefaultMachine, InitialOnline)

\* The refresh cycle of thread t is over: what was recorded about it is
\* dropped.
EndCycle(t) ==
    /\ smp' = [smp EXCEPT ![t] = {}]
    /\ prt' = [prt EXCEPT ![t] = {}]
    /\ failed' = [failed EXCEPT ![t] = FALSE]
    /\ prev_report' = [prev_report EXCEPT ![t] = <<>>]

\* ------------------------------------------------------- my_module_init
\* Lines 149-153: cpu_freqs = kmalloc_array(...); NULL returns -ENOMEM.
InitAlloc ==
    /\ pc["init"] = "i_alloc"
    /\ \/ /\ \E g \in KmallocFill :
                cpu_freqs' = [c \in Slots |-> [cur_freq |-> g, max |-> g, min |-> g]]
          /\ store' = "live"
          /\ pc' = [pc EXCEPT !["init"] = "i_zero"]
          /\ UNCHANGED init_ret
       \/ /\ init_ret' = -ENOMEM
          /\ pc' = [pc EXCEPT !["init"] = "i_fail"]
          /\ UNCHANGED <<cpu_freqs, store>>
    /\ UNCHANGED <<epc, cpu_freq_data, proc_file, timer_pending, uaf, overlapped,
                   overflow, nticks>>
    /\ UNCHANGED <<locals, reader, history, cycle, env>>

\* Lines 156-158: for_each_possible_cpu(cpu) cpu_freqs[cpu].min = 0.
InitZeroMin ==
    /\ pc["init"] = "i_zero"
    /\ cpu_freqs' = [c \in Slots |->
                        IF c \in cpu_possible_mask
                        THEN [cpu_freqs[c] EXCEPT !.min = 0] ELSE cpu_freqs[c]]
    /\ pc' = [pc EXCEPT !["init"] = "i_proc"]
    /\ UNCHANGED <<epc, store, cpu_freq_data, proc_file, timer_pending, init_ret,
                   uaf, overlapped, overflow, nticks>>
    /\ UNCHANGED <<locals, reader, history, cycle, env>>

\* A variant of InitProcCreate whose failure path returns without
\* kfree(cpu_freqs).
InitProcCreateLeak ==
    /\ pc["init"] = "i_proc"
    /\ \/ /\ proc_file' = "registered"
          /\ pc' = [pc EXCEPT !["init"] = "i_timer"]
          /\ UNCHANGED <<store, init_ret>>
       \/ /\ init_ret' = -ENOMEM
          /\ pc' = [pc EXCEPT !["init"] = "i_fail"]
          /\ UNCHANGED <<proc_file, store>>
    /\ UNCHANGED <<epc, cpu_freqs, cpu_freq_data, timer_pending, uaf, overlapped,
                   overflow, nticks>>
    /\ UNCHANGED <<locals, reader, history, cycle, env>>

\* Lines 161-166: proc_create; on failure kfree(cpu_freqs) and -ENOMEM.
InitProcCreate ==
    /\ pc["init"] = "i_proc"
    /\ \/ /\ proc_file' = "registered"
          /\ pc' = [pc EXCEPT !["init"] = "i_timer"]
          /\ UNCHANGED <<store, init_ret>>
       \/ /\ store' = "freed"
          /\ init_ret' = -ENOMEM
          /\ pc' = [pc EXCEPT !["init"] = "i_fail"]
          /\ UNCHANGED proc_file
    /\ UNCHANGED <<epc, cpu_freqs, cpu_freq_data, timer_pending, uaf, overlapped,
                   overflow, nticks>>
    /\ UNCHANGED <<locals, reader, history, cycle, env>>

\* Lines 169-170: timer_setup and mod_timer arm my_timer; the synchronous
\* refresh of lines 173-174 comes after.
InitArmTimer ==
    /\ pc["init"] = "i_timer"
    /\ timer_pending' = TRUE
    /\ pc' = [pc EXCEPT !["init"] = "r_alloc"]
    /\ UNCHANGED <<epc, cpu_freqs, store, cpu_freq_data, proc_file, init_ret,
                   uaf, overlapped, overflow, nticks>>
    /\ UNCHANGED <<locals, reader, history, cycle, env>>

\* Line 176: return 0.
InitReturn ==
    /\ pc["init"] = "i_ret"
    /\ init_ret' = 0
    /\ pc' = [pc EXCEPT !["init"] = "i_done"]
    /\ EndCycle("init")
    /\ UNCHANGED <<epc, cpu_freqs, store, cpu_freq_data, proc_file, timer_pending,
                   uaf, overlapped, overflow, nticks>>
    /\ UNCHANGED <<locals, reader, history, env>>

\* ------------------------------------------------- read_cpu_frequencies
\* Positions inside read_cpu_frequencies and update_cpu_freq_data.
SamplerPcs == {"r_alloc", "r_next", "r_msr", "r_rdmax", "r_wrmax", "r_rdmin",
               "r_wrmin", "r_free"}
FormatterPcs == {"u_alloc", "u_next", "u_sprintf", "u_free"}
RefreshPcs == SamplerPcs \cup FormatterPcs

\* Every access to the array after kfree(cpu_freqs) is recorded.
Touch == uaf' = (uaf \/ store = "freed")

\* Lines 34-43: allocate and fill the scratch array; NULL returns at once.
ReadAlloc(t) ==
    /\ pc[t] = "r_alloc"
    /\ \/ /\ pc' = [pc EXCEPT ![t] = "r_next"]
          /\ first_thread_per_core' = [first_thread_per_core EXCEPT ![t] = ScratchInit]
          /\ cpu' = [cpu EXCEPT ![t] = -1]
          /\ UNCHANGED <<failed, prev_report>>
       \/ /\ pc' = [pc EXCEPT ![t] = "u_alloc"]     \* NULL: line 37
          /\ failed' = [failed EXCEPT ![t] = TRUE]
          /\ prev_report' = [prev_report EXCEPT ![t] = Published]
          /\ UNCHANGED <<first_thread_per_core, cpu>>
    /\ UNCHANGED <<epc, shared, msr_value, freq, ptr, nticks, smp, prt>>
    /\ UNCHANGED <<reader, history, env>>

\* A variant of ReadNext that records every CPU it visits as the first
\* thread of its core (the test of line 51 left out).
ReadNextNoFirstTest(t) ==
    /\ pc[t] = "r_next"
    /\ LET c == NextOnline(cpu[t]) IN
         IF c = NR_CPUS
         THEN /\ pc' = [pc EXCEPT ![t] = "r_free"]
              /\ UNCHANGED <<cpu, first_thread_per_core>>
         ELSE LET core == topology_core_id(c)
                  ft == [first_thread_per_core[t] EXCEPT ![core] = c]
              IN  /\ first_thread_per_core' = [first_thread_per_core EXCEPT ![t] = ft]
                  /\ cpu' = [cpu EXCEPT ![t] = c]
                  /\ pc' = [pc EXCEPT ![t] = IF c # ft[core] THEN "r_next" ELSE "r_msr"]
    /\ UNCHANGED <<epc, shared, msr_value, freq, ptr, nticks>>
    /\ UNCHANGED <<reader, history, cycle, env>>

\* A variant of ReadNext that goes on to sample every CPU it visits (the
\* continue of lines 56-58 left out).
ReadNextNoSkip(t) ==
    /\ pc[t] = "r_next"
    /\ LET c == NextOnline(cpu[t]) IN
         IF c = NR_CPUS
         THEN /\ pc' = [pc EXCEPT ![t] = "r_free"]
              /\ UNCHANGED <<cpu, first_thread_per_core>>
         ELSE LET core == topology_core_id(c)
                  ft == IF first_thread_per_core[t][core] = NR_CPUS
                        THEN [first_thread_per_core[t] EXCEPT ![core] = c]
                        ELSE first_thread_per_core[t]
              IN  /\ first_thread_per_core' = [first_thread_per_core EXCEPT ![t] = ft]
                  /\ cpu' = [cpu EXCEPT ![t] = c]
                  /\ pc' = [pc EXCEPT ![t] = "r_msr"]
    /\ UNCHANGED <<epc, shared, msr_value, freq, ptr, nticks>>
    /\ UNCHANGED <<reader, history, cycle, env>>

\* Lines 45-58, one iteration of for_each_online_cpu up to the continue.
ReadNext(t) ==
    /\ pc[t] = "r_next"
    /\ LET c == NextOnline(cpu[t]) IN
         IF c = NR_CPUS
         THEN /\ pc' = [pc EXCEPT ![t] = "r_free"]
              /\ UNCHANGED <<cpu, first_thread_per_core>>
         ELSE LET core == topology_core_id(c)
                  ft == IF first_thread_per_core[t][core] = NR_CPUS
                        THEN [first_thread_per_core[t] EXCEPT ![core] = c]
                        ELSE first_thread_per_core[t]
              IN  /\ first_thread_per_core' = [first_thread_per_core EXCEPT ![t] = ft]
                  /\ cpu' = [cpu EXCEPT ![t] = c]
                  /\ pc' = [pc EXCEPT ![t] = IF c # ft[core] THEN "r_next" ELSE "r_msr"]
    /\ UNCHANGED <<epc, shared, msr_value, freq, ptr, nticks>>
    /\ UNCHANGED <<reader, history, cycle, env>>

\* Lines 61-70: read the register, derive freq, store cur_freq.
ReadMsr(t) ==
    /\ pc[t] = "r_msr"
    /\ \E msr \in machine.perf_status :
         LET f == FreqOf(msr) c == cpu[t] IN
           /\ msr_value' = [msr_value EXCEPT ![t] = msr]
           /\ freq' = [freq EXCEPT ![t] = f]
           /\ smp' = [smp EXCEPT ![t] = smp[t] \cup {c}]
           /\ cpu_freqs' = [cpu_freqs EXCEPT ![c].cur_freq = f]
           /\ sampled' = [sampled EXCEPT ![c] = TRUE]
           /\ hi' = [hi EXCEPT ![c] = Max2(hi[c], f)]
           /\ lo' = [lo EXCEPT ![c] = IF f = 0 THEN lo[c]
                                      ELSE IF lo[c] = 0 THEN f ELSE Min2(lo[c], f)]
    /\ Touch
    /\ pc' = [pc EXCEPT ![t] = "r_rdmax"]
    /\ UNCHANGED <<epc, store, cpu_freq_data, proc_file, timer_pending, init_ret,
                   overlapped, overflow, cpu, first_thread_per_core, ptr, nticks>>
    /\ UNCHANGED <<reader, env, prt, failed, prev_report>>

\* Line 73: if (freq > cpu_freqs[cpu].max).
ReadLoadMax(t) ==
    /\ pc[t] = "r_rdmax"
    /\ \E v \in LoadSet(cpu[t], "max") :
         pc' = [pc EXCEPT ![t] = IF freq[t] > v THEN "r_wrmax" ELSE "r_rdmin"]
    /\ Touch
    /\ UNCHANGED <<epc, cpu_freqs, store, cpu_freq_data, proc_file, timer_pending,
                   init_ret, overlapped, overflow, locals, nticks>>
    /\ UNCHANGED <<reader, history, cycle, env>>

\* Line 74: cpu_freqs[cpu].max = freq.
ReadStoreMax(t) ==
    /\ pc[t] = "r_wrmax"
    /\ cpu_freqs' = [cpu_freqs EXCEPT ![cpu[t]].max = freq[t]]
    /\ Touch
    /\ pc' = [pc EXCEPT ![t] = "r_rdmin"]
    /\ UNCHANGED <<epc, store, cpu_freq_data, proc_file, timer_pending,
                   init_ret, overlapped, overflow, locals, nticks>>
    /\ UNCHANGED <<reader, history, cycle, env>>

\* Line 76: if (freq < cpu_freqs[cpu].min || cpu_freqs[cpu].min == 0).
ReadLoadMin(t) ==
    /\ pc[t] = "r_rdmin"
    /\ \E v \in LoadSet(cpu[t], "min") :
         pc' = [pc EXCEPT ![t] = IF freq[t] < v \/ v = 0 THEN "r_wrmin" ELSE "r_next"]
    /\ Touch
    /\ UNCHANGED <<epc, cpu_freqs, store, cpu_freq_data, proc_file, timer_pending,
                   init_ret, overlapped, overflow, locals, nticks>>
    /\ UNCHANGED <<reader, history, cycle, env>>

\* Line 77: cpu_freqs[cpu].min = freq.
ReadStoreMin(t) ==
    /\ pc[t] = "r_wrmin"
    /\ cpu_freqs' = [cpu_freqs EXCEPT ![cpu[t]].min = freq[t]]
    /\ Touch
    /\ pc' = [pc EXCEPT ![t] = "r_next"]
    /\ UNCHANGED <<epc, store, cpu_freq_data, proc_file, timer_pending,
                   init_ret, overlapped, overflow, locals, nticks>>
    /\ UNCHANGED <<reader, history, cycle, env>>

\* Line 82: kfree(first_thread_per_core); the caller goes on to
\* update_cpu_freq_data (lines 127-128, 173-174).
ReadFree(t) ==
    /\ pc[t] = "r_free"
    /\ pc' = [pc EXCEPT ![t] = "u_alloc"]
    /\ first_thread_per_core' = [first_thread_per_core EXCEPT ![t] = ScratchInit]
    /\ cpu' = [cpu EXCEPT ![t] = -1]
    /\ msr_value' = [msr_value EXCEPT ![t] = <<0, 0, 0, 0>>]
    /\ freq' = [freq EXCEPT ![t] = 0]
    /\ UNCHANGED <<epc, shared, ptr, nticks>>
    /\ UNCHANGED <<reader, history, cycle, env>>

\* ------------------------------------------------- update_cpu_freq_data
\* Where the caller continues after update_cpu_freq_data: line 176 in
\* my_module_init, line 129 in my_timer_callback.
AfterUpdate(t) == IF t = "init" THEN "i_ret" ELSE "t_mod"

\* Lines 87-101: ptr = cpu_freq_data; allocate and fill the scratch array.
UpdateAlloc(t) ==
    /\ pc[t] = "u_alloc"
    /\ \/ /\ pc' = [pc EXCEPT ![t] = "u_next"]
          /\ first_thread_per_core' = [first_thread_per_core EXCEPT ![t] = ScratchInit]
          /\ cpu' = [cpu EXCEPT ![t] = -1]
          /\ ptr' = [ptr EXCEPT ![t] = 0]
          /\ UNCHANGED <<failed, prev_report>>
       \/ /\ pc' = [pc EXCEPT ![t] = AfterUpdate(t)]     \* NULL: line 95
          /\ failed' = [failed EXCEPT ![t] = TRUE]
          /\ prev_report' = [prev_report EXCEPT ![t] =
                                 IF failed[t] THEN prev_report[t] ELSE Published]
          /\ UNCHANGED <<first_thread_per_core, cpu, ptr>>
    /\ UNCHANGED <<epc, shared, msr_value, freq, nticks, smp, prt>>
    /\ UNCHANGED <<reader, history, env>>

\* Lines 103-114, one iteration of for_each_online_cpu up to the continue.
UpdateNext(t) ==
    /\ pc[t] = "u_next"
    /\ LET c == NextOnline(cpu[t]) IN
         IF c = NR_CPUS
         THEN /\ pc' = [pc EXCEPT ![t] = "u_free"]
              /\ UNCHANGED <<cpu, first_thread_per_core>>
         ELSE LET core == topology_core_id(c)
                  ft == IF first_thread_per_core[t][core] = NR_CPUS
                        THEN [first_thread_per_core[t] EXCEPT ![core] = c]
                        ELSE first_thread_per_core[t]
              IN  /\ first_thread_per_core' = [first_thread_per_core EXCEPT ![t] = ft]
                  /\ cpu' = [cpu EXCEPT ![t] = c]
                  /\ pc' = [pc EXCEPT ![t] = IF c # ft[core] THEN "u_next" ELSE "u_sprintf"]
    /\ UNCHANGED <<epc, shared, msr_value, freq, ptr, nticks>>
    /\ UNCHANGED <<reader, history, cycle, env>>

\* Lines 116-118: sprintf(ptr, ...) stores the line and its terminating
\* NUL; ptr += len.
UpdateSprintf(t) ==
    /\ pc[t] = "u_sprintf"
    /\ \E cur \in LoadSet(cpu[t], "cur_freq"), mx \in LoadSet(cpu[t], "max"),
          mn \in LoadSet(cpu[t], "min") :
         LET line == FormatLine(cpu[t], cur, mx, mn) IN
           /\ cpu_freq_data' = WriteAt(cpu_freq_data, ptr[t], line \o <<0>>)
           /\ overflow' = (overflow \/ ptr[t] + Len(line) + 1 > BufSize)
           /\ ptr' = [ptr EXCEPT ![t] = ptr[t] + Len(line)]
    /\ prt' = [prt EXCEPT ![t] = prt[t] \cup {cpu[t]}]
    /\ Touch
    /\ pc' = [pc EXCEPT ![t] = "u_next"]
    /\ UNCHANGED <<epc, cpu_freqs, store, proc_file, timer_pending, init_ret,
                   overlapped, cpu, first_thread_per_core, msr_value, freq, nticks>>
    /\ UNCHANGED <<reader, history, env, smp, failed, prev_report>>

\* Line 122: kfree(first_thread_per_core), then return to the caller.
UpdateFree(t) ==
    /\ pc[t] = "u_free"
    /\ pc' = [pc EXCEPT ![t] = AfterUpdate(t)]
    /\ first_thread_per_core' = [first_thread_per_core EXCEPT ![t] = ScratchInit]
    /\ cpu' = [cpu EXCEPT ![t] = -1]
    /\ ptr' = [ptr EXCEPT ![t] = 0]
    /\ UNCHANGED <<epc, shared, msr_value, freq, nticks>>
    /\ UNCHANGED <<reader, history, cycle, env>>

\* ------------------------------------------------------ my_timer_callback
\* my_timer expires: the kernel clears the pending state and calls
\* my_timer_callback, which starts with read_cpu_frequencies (line 127).
TimerFire ==
    /\ timer_pending
    /\ pc["timer"] = "idle"
    /\ nticks < MaxTicks
    /\ nticks' = nticks + 1
    /\ timer_pending' = FALSE
    /\ pc' = [pc EXCEPT !["timer"] = "r_alloc"]
    /\ overlapped' = (overlapped \/ pc["init"] \in RefreshPcs)
    /\ UNCHANGED <<epc, cpu_freqs, store, cpu_freq_data, proc_file, init_ret,
                   uaf, overflow>>
    /\ UNCHANGED <<locals, reader, history, cycle, env>>

\* A variant of TimerRearm that returns from the callback without mod_timer.
TimerNoRearm ==
    /\ pc["timer"] = "t_mod"
    /\ pc' = [pc EXCEPT !["timer"] = "idle"]
    /\ EndCycle("timer")
    /\ UNCHANGED <<epc, cpu_freqs, store, cpu_freq_data, proc_file, init_ret,
                   timer_pending, uaf, overlapped, overflow, nticks>>
    /\ UNCHANGED <<locals, reader, history, env>>

\* Line 129: mod_timer(&my_timer, jiffies + TIMER_INTERVAL * HZ).
TimerRearm ==
    /\ pc["timer"] = "t_mod"
    /\ timer_pending' = TRUE
    /\ pc' = [pc EXCEPT !["timer"] = "idle"]
    /\ EndCycle("timer")
    /\ UNCHANGED <<epc, cpu_freqs, store, cpu_freq_data, proc_file, init_ret,
                   uaf, overlapped, overflow, nticks>>
    /\ UNCHANGED <<locals, reader, history, env>>

\* -------------------------------------------------------- my_module_exit
\* The module can be unloaded once my_module_init has returned 0.
\* Line 181: del_timer deactivates a pending timer; it does not wait for a
\* callback that is already running.
ExitDelTimer ==
    /\ epc = "e_idle"
    /\ pc["init"] = "i_done"
    /\ timer_pending' = FALSE
    /\ epc' = "e_proc"
    /\ UNCHANGED <<pc, cpu_freqs, store, cpu_freq_data, proc_file, init_ret,
                   uaf, overlapped, overflow, nticks>>
    /\ UNCHANGED <<locals, reader, history, cycle, env>>

\* Line 182: proc_remove returns when no read of the entry is in flight.
ExitProcRemove ==
    /\ epc = "e_proc"
    /\ rpc = "idle"
    /\ proc_file' = "removed"
    /\ epc' = "e_kfree"
    /\ UNCHANGED <<pc, cpu_freqs, store, cpu_freq_data, timer_pending, init_ret,
                   uaf, overlapped, overflow, nticks>>
    /\ UNCHANGED <<locals, reader, history, cycle, env>>

\* Line 183: kfree(cpu_freqs).
ExitKfree ==
    /\ epc = "e_kfree"
    /\ store' = "freed"
    /\ epc' = "e_done"
    /\ UNCHANGED <<pc, cpu_freqs, cpu_freq_data, proc_file, timer_pending, init_ret,
                   uaf, overlapped, overflow, nticks>>
    /\ UNCHANGED <<locals, reader, history, cycle, env>>

\* ------------------------------------------------------------- proc_read
\* Line 134, the arguments: strlen(cpu_freq_data) is evaluated before
\* simple_read_from_buffer is entered.
ReadStrlen ==
    /\ rpc = "idle"
    /\ proc_file = "registered"
    /\ \E n \in ReadCounts : count' = n
    /\ available' = Strlen(cpu_freq_data)
    /\ rfresh' = (cpu_freq_data = <<>>)
    /\ rinit' = (pc["init"] = "i_done")
    /\ rpc' = "copy"
    /\ UNCHANGED <<ppos, rret, rdata>>
    /\ UNCHANGED <<pc, epc, shared, locals, history, cycle, env, nticks>>

\* Line 134, the call: simple_read_from_buffer copies from the buffer as it
\* is now and advances *ppos. The user buffer is valid or faults as a whole.
ReadCopy ==
    /\ rpc = "copy"
    /\ \E uncopied \in {0, count} :
         LET r == simple_read_from_buffer(count, ppos, cpu_freq_data, available,
                                          uncopied)
         IN  /\ rret' = r.ret
             /\ ppos' = r.pos
             /\ rdata' = r.data
    /\ rpc' = "ret"
    /\ UNCHANGED <<count, available, rfresh, rinit>>
    /\ UNCHANGED <<pc, epc, shared, locals, history, cycle, env, nticks>>

\* read() is back in the caller, which reads on from the position reached
\* or, at end of data or on an error, closes the file.
ReadReturn ==
    /\ rpc = "ret"
    /\ rpc' = "idle"
    /\ ppos' = IF rret > 0 THEN ppos ELSE 0
    /\ count' = 0 /\ available' = 0 /\ rret' = 0 /\ rdata' = <<>>
    /\ rfresh' = FALSE /\ rinit' = FALSE
    /\ UNCHANGED <<pc, epc, shared, locals, history, cycle, env, nticks>>

\* ------------------------------------------------------------ CPU hotplug
CpuDown(c) ==
    /\ nhotplug < MaxHotplug
    /\ c \in cpu_online_mask
    /\ cpu_online_mask # {c}
    /\ cpu_online_mask' = cpu_online_mask \ {c}
    /\ nhotplug' = nhotplug + 1
    /\ UNCHANGED <<machine, pc, epc, shared, locals, reader, history, cycle, nticks>>

CpuUp(c) ==
    /\ nhotplug < MaxHotplug
    /\ c \in cpu_possible_mask \ cpu_online_mask
    /\ cpu_online_mask' = cpu_online_mask \cup {c}
    /\ nhotplug' = nhotplug + 1
    /\ UNCHANGED <<machine, pc, epc, shared, locals, reader, history, cycle, nticks>>

\* ------------------------------------------------------------------ Next
Refresh(t) ==
    \/ ReadAlloc(t) \/ ReadNext(t) \/ ReadMsr(t) \/ ReadLoadMax(t)
    \/ ReadStoreMax(t) \/ ReadLoadMin(t) \/ ReadStoreMin(t) \/ ReadFree(t)
    \/ UpdateAlloc(t) \/ UpdateNext(t) \/ UpdateSprintf(t) \/ UpdateFree(t)

Module ==
    \/ InitAlloc \/ InitZeroMin \/ InitProcCreate \/ InitArmTimer \/ InitReturn
    \/ \E t \in Threads : Refresh(t)
    \/ TimerFire \/ TimerRearm

Unload == ExitDelTimer \/ ExitProcRemove \/ ExitKfree

Reader == ReadStrlen \/ ReadCopy \/ ReadReturn

Hotplug == \E c \in cpu_possible_mask : CpuDown(c) \/ CpuUp(c)

Next == Module \/ Unload
NextReader == Module \/ Reader
NextHotplug == Module \/ Hotplug

Spec == Init /\ [][Next]_vars
SpecReader == Init /\ [][NextReader]_vars

\* For hotplug the module is loaded with one CPU online, or with the first
\* thread of each core online, so that a CPU can go offline as well.
InitHotplug ==
    \E online \in {InitialOnline, {0, 2}} : Boot(DefaultMachine, online)

SpecHotplug == InitHotplug /\ [][NextHotplug]_vars

\* The CPUs a scratch array names as first thread of their core.
RepsOf(ft) == {ft[k] : k \in Slots} \ {NR_CPUS}

\* One line per CPU of reps, in ascending order, from the records freqs.
RECURSIVE FormatReport(_, _)
FormatReport(reps, freqs) ==
    IF reps = {} THEN <<>>
    ELSE LET c == CHOOSE x \in reps : \A y \in reps : x <= y
         IN  FormatLine(c, freqs[c].cur_freq, freqs[c].max, freqs[c].min)
             \o FormatReport(reps \ {c}, freqs)

\* ------------------------------------------- the module once it is loaded
\* The scratch array the loop of lines 45-58 (and 103-114) has built when it
\* has gone through the CPUs c, c+1, ... of the set online.
RECURSIVE Resolve(_, _, _)
Resolve(c, online, ft) ==
    IF c >= NR_CPUS THEN ft
    ELSE IF c \notin online THEN Resolve(c + 1, online, ft)
    ELSE LET core == topology_core_id(c) IN
         Resolve(c + 1, online,
                 IF ft[core] = NR_CPUS THEN [ft EXCEPT ![core] = c] ELSE ft)

\* The CPUs the loop samples, or prints: cpu == first_thread_per_core[core_id].
Representatives(online) ==
    {c \in online : Resolve(0, online, ScratchInit)[topology_core_id(c)] = c}

\* Lines 70-78 applied to one record.
UpdateRecord(rec, f) ==
    LET r1 == [rec EXCEPT !.cur_freq = f]
        r2 == IF f > r1.max THEN [r1 EXCEPT !.max = f] ELSE r1
    IN  IF f < r2.min \/ r2.min = 0 THEN [r2 EXCEPT !.min = f] ELSE r2

\* The module after my_module_init (lines 143-177) has run to completion on
\* its own, on a machine with any set of CPUs online: the array allocated
\* and its min fields cleared, the proc file created, the timer armed, one
\* sample taken per representative and the report written.
InitLoaded ==
    /\ machine = DefaultMachine
    /\ \E online \in (SUBSET cpu_possible_mask) \ {{}} :
       \E g \in KmallocFill :
       \E msr \in [Representatives(online) -> MsrValues] :
         LET reps == Representatives(online)
             raw == [c \in Slots |->
                       [cur_freq |-> g, max |-> g,
                        min |-> IF c \in cpu_possible_mask THEN 0 ELSE g]]
             recs == [c \in Slots |->
                       IF c \in reps THEN UpdateRecord(raw[c], FreqOf(msr[c]))
                       ELSE raw[c]]
         IN
         /\ pc = [t \in Threads |-> IF t = "init" THEN "i_done" ELSE "idle"]
         /\ epc = "e_idle"
         /\ cpu_freqs = recs
         /\ store = "live"
         /\ cpu_freq_data =
               [i \in 1 .. (Len(FormatReport(reps, recs)) + 1) |->
                   IF i <= Len(FormatReport(reps, recs))
                   THEN FormatReport(reps, recs)[i] ELSE 0]
         /\ proc_file = "registered"
         /\ timer_pending = TRUE
         /\ cpu_online_mask = online
         /\ cpu = [t \in Threads |-> -1]
         /\ first_thread_per_core = [t \in Threads |-> ScratchInit]
         /\ msr_value = [t \in Threads |-> <<0, 0, 0, 0>>]
         /\ freq = [t \in Threads |-> 0]
         /\ ptr = [t \in Threads |-> 0]
         /\ init_ret = 0
         /\ rpc = "idle" /\ ppos = 0 /\ count = 0 /\ available = 0
         /\ rret = 0 /\ rdata = <<>>
         /\ sampled = [c \in Slots |-> c \in reps]
         /\ hi = [c \in Slots |-> IF c \in reps THEN FreqOf(msr[c]) ELSE 0]
         /\ lo = [c \in Slots |-> IF c \in reps THEN FreqOf(msr[c]) ELSE 0]
         /\ smp = [t \in Threads |-> {}]
         /\ prt = [t \in Threads |-> {}]
         /\ failed = [t \in Threads |-> FALSE]
         /\ prev_report = [t \in Threads |-> <<>>]
         /\ uaf = FALSE /\ overlapped = FALSE /\ overflow = FALSE
         /\ rfresh = FALSE /\ rinit = FALSE
         /\ nticks = 0 /\ nhotplug = 0

\* Readers of a loaded module whose timer has not expired yet.
SpecLoaded == InitLoaded /\ [][Reader]_vars

\* Under Spec, my_module_init ends where InitLoaded starts: when it has
\* returned 0 with its sample taken and its report written, and the timer
\* has not expired, the record and the buffer are the ones InitLoaded gives.
InitLoadedIsReached ==
    (pc["init"] = "i_done" /\ nticks = 0 /\ sampled[0] /\ Len(cpu_freq_data) > 0)
        => /\ Representatives(cpu_online_mask) = {0}
           /\ \E g \in KmallocFill :
                cpu_freqs[0] =
                    UpdateRecord([cur_freq |-> g, max |-> g, min |-> 0], hi[0])
           /\ Published = FormatReport({0}, cpu_freqs)
           /\ Len(cpu_freq_data) = Len(Published) + 1

\* ------------------------------------------------- the module at run time
\* The module while it stays loaded. A thread of the kernel that can take a
\* step eventually takes one: my_module_init and my_timer_callback run to
\* their end, and an armed timer expires.
SpecLive ==
    /\ Init /\ [][Module]_vars
    /\ WF_vars(InitAlloc \/ InitZeroMin \/ InitProcCreate \/ InitArmTimer
                \/ InitReturn \/ Refresh("init"))
    /\ WF_vars(Refresh("timer") \/ TimerRearm)
    /\ WF_vars(TimerFire)

\* ------------------------------------------- the module on other machines
\* Machines with as many CPUs as CoreIdTable names, all of them possible,
\* under every assignment of the CPUs to cores; the cores run at one frequency.
TopologyMachines ==
    {[core_id |-> m,
      possible |-> 0 .. (Len(CoreIdTable) - 1),
      perf_status |-> {<<0, 0, 0, 12 * 256 + 255>>}] :
        m \in [1 .. Len(CoreIdTable) -> 0 .. (Len(CoreIdTable) - 1)]}

\* Register values with every content of bits 8-15, the bits below and
\* above them all clear or all set.
RegisterValues ==
    {<<h, h, h, f * 256 + l>> : h \in {0, 65535}, f \in 0 .. 255, l \in {0, 255}}

\* The machine of Spec with a register that can hold any of RegisterValues.
RegisterMachine == [DefaultMachine EXCEPT !.perf_status = RegisterValues]

\* A machine with BigCpus single-threaded cores that run at one frequency.
BigMachine ==
    [core_id |-> [i \in 1 .. BigCpus |-> i - 1],
     possible |-> 0 .. (BigCpus - 1),
     perf_status |-> {<<0, 0, 0, 12 * 256>>}]

\* The module is loaded on one of these machines: a small one with any set
\* of its CPUs online, the register machine, or the big one with every CPU
\* online.
InitMachine ==
    \/ \E m \in TopologyMachines :
         \E online \in (SUBSET m.possible) \ {{}} : Boot(m, online)
    \/ Boot(RegisterMachine, InitialOnline)
    \/ Boot(BigMachine, BigMachine.possible)

\* my_module_init on its own: the timer it arms does not expire before it
\* returns.
NextMachine ==
    \/ InitAlloc \/ InitZeroMin \/ InitProcCreate \/ InitArmTimer \/ InitReturn
    \/ Refresh("init")

SpecMachine == InitMachine /\ [][NextMachine]_vars

\* ================================================================ claims
\* Some thread is between the store of cur_freq and the end of the update
\* of slot c (lines 70-78).
MidUpdate(c) ==
    \E t \in Threads :
        pc[t] \in {"r_rdmax", "r_wrmax", "r_rdmin", "r_wrmin"} /\ cpu[t] = c

\* Slot c of the live array has been sampled and no update of it is under way.
Settled(c) == store = "live" /\ sampled[c] /\ ~MidUpdate(c)

\* C1: every slot whose minimum is non-zero has minimum <= current <= maximum
\* once the sampler updates of that slot have completed.
C1_MinCurMaxOrdered ==
    \A c \in Slots :
        (Settled(c) /\ cpu_freqs[c].min # 0)
            => /\ cpu_freqs[c].min <= cpu_freqs[c].cur_freq
               /\ cpu_freqs[c].cur_freq <= cpu_freqs[c].max

\* C2: after any sequence of samples of a slot, maximum is the highest
\* frequency ever sampled for it.
C2_MaxIsHighestSample ==
    \A c \in Slots : Settled(c) => cpu_freqs[c].max = hi[c]

\* C3: after any sequence of samples of a slot, minimum is the lowest
\* non-zero frequency ever sampled for it, and 0 only if there was none
\* (stated for runs in which no two refresh cycles overlapped).
C3_MinIsLowestNonZeroSample ==
    \A c \in Slots : (Settled(c) /\ ~overlapped) => cpu_freqs[c].min = lo[c]

\* C4: when a refresh cycle has formatted its last line, the report served
\* is exactly one line per representative CPU of the cycle, in ascending
\* CPU order, each with the record the store holds for that CPU.
C4_ReportMatchesStore ==
    \A t \in Threads :
        (pc[t] = "u_free" /\ store = "live")
            => Published = FormatReport(RepsOf(first_thread_per_core[t]), cpu_freqs)

\* A text made of whole lines: no NUL in it, each line starts with 'C' and
\* the last one ends with a newline.
WholeLines(data) ==
    /\ \A i \in 1 .. Len(data) : data[i] # 0
    /\ Len(data) > 0 => (data[1] = 67 /\ data[Len(data)] = 10)
    /\ \A i \in 1 .. (Len(data) - 1) : data[i] = 10 => data[i + 1] = 67

\* C5: a read of the whole report that runs concurrently with a refresh
\* returns a structurally valid report (stated for runs in which no two
\* refresh cycles overlapped).
C5_ReadIsAWholeReport ==
    (rpc = "ret" /\ rret > 0 /\ ppos = rret /\ count >= BufSize /\ ~overlapped)
        => WholeLines(rdata)

\* C6: once my_module_exit has freed the store, no refresh cycle is
\* executing, the store has not been accessed since and the timer is not armed.
C6_NoRefreshAfterFree ==
    epc = "e_done" => (pc["timer"] = "idle" /\ ~timer_pending /\ ~uaf)

\* C7: once my_module_init has returned 0, a read from the start of the
\* endpoint returns a non-empty report.
C7_NonEmptyAfterInit ==
    (rpc = "ret" /\ rinit /\ count > 0 /\ ppos = Max2(rret, 0)) => rret # 0

\* C8: a read issued while the endpoint is registered and nothing has been
\* written to the report buffer returns zero bytes, not an error.
C8_ZeroBytesBeforeFirstRefresh ==
    (rpc = "ret" /\ rfresh) => (rret = 0 /\ rdata = <<>>)

\* C8 witness: such a read has returned while my_module_init was still
\* on its way, and the refresh it raced has since written the report.
C8_Witness ==
    /\ rpc = "ret" /\ rfresh /\ rret = 0
    /\ proc_file = "registered"
    /\ pc["init"] \in RefreshPcs
    /\ Strlen(cpu_freq_data) > 0

\* C9: for the report in the buffer and every split offset k, a read of k
\* bytes followed by a read of the rest delivers the bytes one read of the
\* whole report delivers, and a read at the cursor then reached returns 0.
C9_ChunkedReadEqualsWholeRead ==
    \A avail \in {Strlen(cpu_freq_data)} :
    \A whole \in {simple_read_from_buffer(BufSize, 0, cpu_freq_data, avail, 0)} :
        /\ whole.data = Bytes(cpu_freq_data, 0, avail)
        /\ \A k \in 0 .. avail :
           \A first \in {simple_read_from_buffer(k, 0, cpu_freq_data, avail, 0)} :
           \A second \in {simple_read_from_buffer(BufSize, first.pos,
                                                  cpu_freq_data, avail, 0)} :
           \A third \in {simple_read_from_buffer(BufSize, second.pos,
                                                 cpu_freq_data, avail, 0)} :
               /\ first.data \o second.data = whole.data
               /\ second.pos = avail
               /\ third.ret = 0 /\ third.data = <<>>

\* C9 witness: a report is published and a reader has been handed a first
\* part of it, its cursor left inside the report.
C9_Witness ==
    /\ rpc = "ret" /\ rret > 0
    /\ ppos > 0 /\ ppos < Strlen(cpu_freq_data)
    /\ rdata = Bytes(cpu_freq_data, 0, ppos)

\* C10: when my_module_init has returned failure, no endpoint is registered,
\* the timer is not armed, the store is not held, and no refresh cycle has
\* run or is running.
C10_FailedInitLeavesNothing ==
    pc["init"] = "i_fail"
        => /\ init_ret = -ENOMEM
           /\ proc_file = "null"
           /\ ~timer_pending
           /\ store \in {"null", "freed"}
           /\ pc["timer"] = "idle" /\ nticks = 0
           /\ cpu_freq_data = <<>>
           /\ \A c \in Slots : ~sampled[c]

\* C10 witness: endpoint registration failed and the store allocated before
\* it has been released.
C10_Witness ==
    pc["init"] = "i_fail" /\ store = "freed" /\ init_ret = -ENOMEM

\* C11: once my_module_init has gone through its initialisation of the
\* store (lines 149-158), every slot that has never been sampled holds
\* current = 0, maximum = 0 and minimum = 0.
C11_UnsampledSlotsAreZero ==
    (store = "live" /\ pc["init"] \notin {"i_alloc", "i_zero"})
        => \A c \in Slots :
              ~sampled[c] => /\ cpu_freqs[c].cur_freq = 0
                             /\ cpu_freqs[c].max = 0
                             /\ cpu_freqs[c].min = 0

\* C12: at most one execution of read_cpu_frequencies followed by
\* update_cpu_freq_data is in progress: the startup refresh of
\* my_module_init and a refresh run by my_timer_callback never overlap.
C12_NoOverlappingCycles ==
    ~(pc["init"] \in RefreshPcs /\ pc["timer"] \in RefreshPcs)

\* The online CPUs of the core with id k.
OnlineOfCore(k) == {c \in cpu_online_mask : topology_core_id(c) = k}

\* The lowest-numbered online CPU of every core that has one.
LowestOnline ==
    {c \in cpu_online_mask : \A d \in OnlineOfCore(topology_core_id(c)) : c <= d}

C14_OnlyRepresentativesChange ==
    [][(store = "live" /\ pc["init"] \notin {"i_alloc", "i_zero"})
          => \A c \in Slots :
                cpu_freqs'[c] # cpu_freqs[c] => c \in LowestOnline]_vars

\* C14 witness: with CPUs 0 and 1 of core 0 online and core 1 offline, the
\* cycle has run to its end; CPU 0 holds its sample, the records of CPU 1
\* and of the CPUs of core 1 are as the allocation left them.
C14_Witness ==
    /\ machine.core_id = <<0, 0, 1, 1>>
    /\ cpu_online_mask = {0, 1}
    /\ pc["init"] = "i_ret"
    /\ smp["init"] = {0} /\ prt["init"] = {0}
    /\ cpu_freqs[0].cur_freq = 1200
    /\ \A c \in {1, 2, 3} :
          /\ ~sampled[c]
          /\ cpu_freqs[c] = [cur_freq |-> 9000, max |-> 9000, min |-> 0]

\* C15: update_cpu_freq_data never stores a byte outside the BufSize bytes
\* of cpu_freq_data, however many lines it has to write.
C15_NoWriteBeyondBuffer ==
    ~overflow /\ Len(cpu_freq_data) <= BufSize

\* C16: when a refresh cycle run by my_timer_callback in which a scratch
\* allocation failed is over, the report served is byte for byte the one
\* that was published when the allocation failed, and after the failure the
\* cycle does not go back to sampling (stated for a report that is not
\* empty and for runs in which no two refresh cycles overlapped).
C16_FailedCycleKeepsReport ==
    (failed["timer"] /\ prev_report["timer"] # <<>> /\ ~overlapped)
        => /\ pc["timer"] \in FormatterPcs \cup {"t_mod"}
           /\ pc["timer"] = "t_mod" => Published = prev_report["timer"]

Bit(x, i) == (x[4 - (i \div 16)] \div (2 ^ (i % 16))) % 2

\* The number that bits 8 to 15 of x spell, bit 8 the least significant.
Bits8to15(x) ==
    Bit(x, 8) + 2 * Bit(x, 9) + 4 * Bit(x, 10) + 8 * Bit(x, 11)
    + 16 * Bit(x, 12) + 32 * Bit(x, 13) + 64 * Bit(x, 14) + 128 * Bit(x, 15)

\* C18: the frequency derived from a register value, and stored as the
\* current frequency, is 100 times the number in bits 8-15 of the value,
\* whatever the other bits are: a multiple of 100 between 0 and 25500
\* (2500 for bits 8-15 = 0x19).
C18_FreqIsHundredTimesBits8to15 ==
    \A t \in Threads :
        pc[t] \in {"r_rdmax", "r_wrmax", "r_rdmin", "r_wrmin"}
            => /\ freq[t] = 100 * Bits8to15(msr_value[t])
               /\ freq[t] % 100 = 0
               /\ freq[t] >= 0 /\ freq[t] <= 25500
               /\ Bits8to15(msr_value[t]) = 25 => freq[t] = 2500
               /\ cpu_freqs[cpu[t]].cur_freq = freq[t]

\* C18 witness: the register was read with bits 8-15 = 0x19 and every
\* other bit set, and 2500 has been stored as the current frequency.
C18_Witness ==
    /\ pc["init"] = "r_rdmax"
    /\ msr_value["init"] = <<65535, 65535, 65535, 25 * 256 + 255>>
    /\ freq["init"] = 2500
    /\ cpu_freqs[0].cur_freq = 2500

\* C19: when a refresh cycle in which no allocation failed has formatted
\* its last line, the CPUs it has printed a line for are exactly the CPUs
\* it has sampled, whatever happened to the online CPUs meanwhile.
C19_SampledAreThePrinted ==
    \A t \in Threads :
        (pc[t] = "u_free" /\ ~failed[t]) => prt[t] = smp[t]

====
